---------------------------- MODULE Spec2Model ----------------------------
(***************************************************************************)
(* Model of the soplang package registry scripts:                          *)
(*   scripts/verify_append.py      append-diff verifier                    *)
(*   scripts/validate_sop_toml.py  descriptor admission validator          *)
(*   scripts/update_registry.py    merge / enrichment                      *)
(*   scripts/daily_check.py        validity sweep and field reconciler     *)
(*                                                                         *)
(* A Python str is a sequence of tokens (a token is a character or an      *)
(* indivisible chunk such as "github.com"); a dict is a function whose     *)
(* DOMAIN is its key set; a list is a sequence.                            *)
(***************************************************************************)
EXTENDS Naturals, Sequences, FiniteSets, TLC

VARIABLES
    base_data,       \* verify_append.py: the base branch's registry.json
    registry_data,   \* registry.json in the working tree (the PR's / main's)
    web,             \* raw-content host: URL -> response
    pc,              \* stage of the contribution in flight
    run,             \* the last invocation: its arguments and what it did
    stable           \* how far the last contribution got with the remote unchanged

vars == <<base_data, registry_data, web, pc, run, stable>>

\* Nothing has run yet
Idle == [op |-> "none"]

----------------------------------------------------------------------------
(* Python str and dict primitives                                          *)

EmptyDict == [k \in {} |-> TRUE]

\* d[k] = v on a dict
Put(d, k, v) == [f \in DOMAIN d \cup {k} |-> IF f = k THEN v ELSE d[f]]

\* d.get(k, default)
Get(d, k, default) == IF k \in DOMAIN d THEN d[k] ELSE default

Whitespace == {" "}

RECURSIVE LStripSet(_, _)
LStripSet(s, chars) ==
    IF s # <<>> /\ Head(s) \in chars THEN LStripSet(Tail(s), chars) ELSE s

RECURSIVE RStripSet(_, _)
RStripSet(s, chars) ==
    IF s # <<>> /\ s[Len(s)] \in chars
    THEN RStripSet(SubSeq(s, 1, Len(s) - 1), chars)
    ELSE s

\* str.strip()
Strip(s) == RStripSet(LStripSet(s, Whitespace), Whitespace)

\* str.replace(old, new) for a one-token old and a token-sequence new
RECURSIVE Replace(_, _, _)
Replace(s, old, new) ==
    IF s = <<>> THEN <<>>
    ELSE (IF Head(s) = old THEN new ELSE <<Head(s)>>) \o Replace(Tail(s), old, new)

----------------------------------------------------------------------------
(* scripts/verify_append.py                                                *)

allowed_fields == {"repository"}

\* The mutant: step 7 without .strip()
NewRepoUrlNoStrip(new_package) == Get(new_package, "repository", <<>>)

\* Step 7: new_package.get("repository", "").strip()
NewRepoUrl(new_package) == Strip(Get(new_package, "repository", <<>>))

\* main(base_registry_path, pr_registry_path) on the two loaded documents
VerifyAppend(base, pr) ==
    IF "packages" \notin DOMAIN base \/ "packages" \notin DOMAIN pr
    THEN [exit |-> 1, err |-> "packages missing"]
    ELSE LET base_packages == base["packages"]
             pr_packages   == pr["packages"]
         IN
         IF Len(pr_packages) # Len(base_packages) + 1
         THEN [exit |-> 1, err |-> "count"]
         ELSE IF \E i \in 1..Len(base_packages) : base_packages[i] # pr_packages[i]
         THEN [exit |-> 1, err |-> "modified"]
         ELSE LET new_package == pr_packages[Len(pr_packages)]
                  repo_url    == NewRepoUrl(new_package)
              IN
              IF DOMAIN new_package \ allowed_fields # {}
              THEN [exit |-> 1, err |-> "extra fields"]
              ELSE IF repo_url = <<>>
              THEN [exit |-> 1, err |-> "repository empty"]
              ELSE [exit |-> 0, err |-> "none"]

----------------------------------------------------------------------------
(* The raw-content host                                                    *)

NotFound == [status |-> 404, parses |-> FALSE, doc |-> EmptyDict]

\* A 200 response whose body is not TOML (a source file, say)
PlainFile == [status |-> 200, parses |-> FALSE, doc |-> EmptyDict]

\* A 200 response whose body toml.loads turns into doc
TomlFile(doc) == [status |-> 200, parses |-> TRUE, doc |-> doc]

\* requests.get(url)
HttpGet(url) == IF url \in DOMAIN web THEN web[url] ELSE NotFound

\* repo_url.replace("github.com", "raw.githubusercontent.com").rstrip("/")
RawRoot(repo_url) ==
    RStripSet(Replace(repo_url, "github.com", << "raw.githubusercontent.com" >>), {"/"})

\* ... + "/main/sop.toml"
SopTomlUrl(repo_url) == RawRoot(repo_url) \o << "/", "main", "/", "sop.toml" >>

----------------------------------------------------------------------------
(* scripts/validate_sop_toml.py                                            *)

\* The mutant: author is checked before license
RequiredFieldsAuthorFirst ==
    << "name", "version", "status", "author", "license", "repository", "entry" >>

REQUIRED_FIELDS ==
    << "name", "version", "status", "license", "author", "repository", "entry" >>

\* The loop over REQUIRED_FIELDS from position i: the fields it looks at, up
\* to and including the first one absent from package_info
RECURSIVE CheckedFields(_, _)
CheckedFields(package_info, i) ==
    IF i > Len(REQUIRED_FIELDS) THEN <<>>
    ELSE IF REQUIRED_FIELDS[i] \notin DOMAIN package_info
    THEN << REQUIRED_FIELDS[i] >>
    ELSE << REQUIRED_FIELDS[i] >> \o CheckedFields(package_info, i + 1)

\* raw_url.replace("sop.toml", entry_path.lstrip("/"))
AdmissionEntryUrl(raw_url, entry_path) ==
    Replace(raw_url, "sop.toml", LStripSet(entry_path, {"/"}))

\* main(pr_registry_path) on the loaded document: the exit code, the
\* diagnostic (for a missing field, its name), the required fields looked at
\* and the entry URLs probed, in order
ValidateSopToml(pr_data) ==
    LET packages == Get(pr_data, "packages", <<>>) IN
    IF packages = <<>>
    THEN [exit |-> 1, err |-> "no packages", checked |-> <<>>, probed |-> <<>>]
    ELSE
    LET new_package == packages[Len(packages)] IN
    IF "repository" \notin DOMAIN new_package
    THEN [exit |-> 1, err |-> "KeyError", checked |-> <<>>, probed |-> <<>>]
    ELSE
    LET raw_url  == SopTomlUrl(new_package["repository"])
        response == HttpGet(raw_url)
    IN
    IF response.status # 200
    THEN [exit |-> 1, err |-> "fetch", checked |-> <<>>, probed |-> <<>>]
    ELSE IF ~response.parses
    THEN [exit |-> 1, err |-> "parse", checked |-> <<>>, probed |-> <<>>]
    ELSE
    LET package_info == Get(response.doc, "package", EmptyDict)
        checked      == CheckedFields(package_info, 1)
    IN
    IF checked[Len(checked)] \notin DOMAIN package_info
    THEN [exit |-> 1, err |-> checked[Len(checked)], checked |-> checked,
          probed |-> <<>>]
    ELSE
    LET entry_url == AdmissionEntryUrl(raw_url, package_info["entry"]) IN
    IF HttpGet(entry_url).status # 200
    THEN [exit |-> 1, err |-> "entry not found", checked |-> checked,
          probed |-> << entry_url >>]
    ELSE [exit |-> 0, err |-> "none", checked |-> checked,
          probed |-> << entry_url >>]

----------------------------------------------------------------------------
(* scripts/update_registry.py                                              *)

\* The mutant: valid is copied from the descriptor too
FieldsToCopyWithValid ==
    << "name", "version", "status", "description", "license", "author",
       "repository", "homepage", "entry", "keywords", "categories", "valid" >>

FIELDS_TO_COPY ==
    << "name", "version", "status", "description", "license", "author",
       "repository", "homepage", "entry", "keywords", "categories" >>

Range(s) == { s[i] : i \in DOMAIN s }

\* Step 3: new_package[field] = package_info[field] for the copied fields
\* that package_info declares
CopyFields(new_package, package_info) ==
    LET copied == Range(FIELDS_TO_COPY) \cap DOMAIN package_info IN
    [ f \in DOMAIN new_package \cup copied |->
        IF f \in copied THEN package_info[f] ELSE new_package[f] ]

\* main() on the loaded document, given whether GH_PAT is set and whether the
\* git commands succeed: the exit code, whether registry.json was written and
\* with what, and the package section the fields were copied from
UpdateRegistry(data, pat, git_ok) ==
    LET packages == Get(data, "packages", <<>>)
        nothing  == [wrote |-> FALSE, written |-> data, package_info |-> EmptyDict,
                     commits |-> 0]
    IN
    IF packages = <<>> THEN [exit |-> 1, err |-> "no packages"] @@ nothing
    ELSE
    LET new_package == packages[Len(packages)] IN
    IF "repository" \notin DOMAIN new_package
    THEN [exit |-> 1, err |-> "KeyError"] @@ nothing
    ELSE
    LET response == HttpGet(SopTomlUrl(new_package["repository"])) IN
    IF response.status # 200 \/ ~response.parses
    THEN [exit |-> 1, err |-> "fetch or parse"] @@ nothing
    ELSE
    LET package_info == Get(response.doc, "package", EmptyDict)
        enriched     == CopyFields(new_package, package_info)
        written      == Put(data, "packages",
                            [packages EXCEPT ![Len(packages)] = enriched])
        done         == [wrote |-> TRUE, written |-> written,
                         package_info |-> package_info]
    IN
    IF ~pat THEN [exit |-> 1, err |-> "GH_PAT", commits |-> 0] @@ done
    ELSE IF ~git_ok THEN [exit |-> 1, err |-> "git", commits |-> 0] @@ done
    ELSE [exit |-> 0, err |-> "none", commits |-> 1] @@ done

----------------------------------------------------------------------------
(* scripts/daily_check.py: the field reconciler                            *)

\* The mutant: the comparison runs over the copy list, description included
FieldsToCompareWithDescription ==
    << "name", "version", "status", "description", "license", "author",
       "repository", "homepage", "entry", "keywords", "categories" >>

FIELDS_TO_COMPARE ==
    << "name", "version", "status", "license", "author",
       "repository", "homepage", "entry", "keywords", "categories" >>

\* The loop of compare_metadata from position i: the first field present in
\* both whose values differ, or "none"
RECURSIVE FirstMismatch(_, _, _)
FirstMismatch(registry_package, package_info, i) ==
    IF i > Len(FIELDS_TO_COMPARE) THEN "none"
    ELSE LET field == FIELDS_TO_COMPARE[i] IN
         IF field \notin DOMAIN package_info
         THEN FirstMismatch(registry_package, package_info, i + 1)
         ELSE IF /\ field \in DOMAIN registry_package
                 /\ registry_package[field] # package_info[field]
         THEN field
         ELSE FirstMismatch(registry_package, package_info, i + 1)

\* The mutant: a missing package section is read as an empty one
CompareMetadataNoGuard(registry_package, sop_data) ==
    LET field == FirstMismatch(registry_package, Get(sop_data, "package", EmptyDict), 1)
    IN  [match |-> field = "none", field |-> field]

\* compare_metadata(registry_package, sop_data): the returned bool and the
\* field named in the diagnostic
CompareMetadata(registry_package, sop_data) ==
    IF sop_data = EmptyDict \/ "package" \notin DOMAIN sop_data
    THEN [match |-> FALSE, field |-> "no descriptor"]
    ELSE LET field == FirstMismatch(registry_package, sop_data["package"], 1)
         IN  [match |-> field = "none", field |-> field]

----------------------------------------------------------------------------
(* scripts/daily_check.py: the validity sweep                              *)

\* fetch_sop_toml(repo_url): the parsed document, {} on any failure
FetchSopToml(repo_url) ==
    LET response == HttpGet(SopTomlUrl(repo_url)) IN
    IF response.status = 200 /\ response.parses THEN response.doc ELSE EmptyDict

\* ... + "/main/" + entry_path.lstrip("/")
SweepEntryUrl(repo_url, entry_path) ==
    RawRoot(repo_url) \o << "/", "main", "/" >> \o LStripSet(entry_path, {"/"})

\* check_entry_file(repo_url, entry_path)
CheckEntryFile(repo_url, entry_path) ==
    IF entry_path = <<>> THEN FALSE
    ELSE HttpGet(SweepEntryUrl(repo_url, entry_path)).status = 200

\* The mutant: the verdict leaves the entry probe out
IsValidWithoutEntry(sop_data, entry_exists, metadata_matches) ==
    sop_data # EmptyDict /\ metadata_matches

\* is_valid = bool(sop_data and entry_exists and metadata_matches)
IsValid(sop_data, entry_exists, metadata_matches) ==
    sop_data # EmptyDict /\ entry_exists /\ metadata_matches

\* Lines 150-158: whether the record's valid is assigned and changes_made set
MarksChanged(package, is_valid) ==
    IF Get(package, "valid", TRUE) # is_valid THEN TRUE
    ELSE "valid" \notin DOMAIN package

\* One pass of the loop body over `package`: the record as it was, whether a
\* descriptor was fetched, and what was computed and decided for it
CheckPackage(package) ==
    LET repo_url == Get(package, "repository", <<>>) IN
    IF repo_url = <<>>
    THEN [package |-> package, fetched |-> FALSE, entry_exists |-> FALSE,
          metadata_matches |-> FALSE, is_valid |-> FALSE, changed |-> TRUE]
    ELSE
    LET sop_data     == FetchSopToml(repo_url)
        entry_exists ==
            IF /\ sop_data # EmptyDict
               /\ "package" \in DOMAIN sop_data
               /\ "entry" \in DOMAIN sop_data["package"]
            THEN CheckEntryFile(repo_url, sop_data["package"]["entry"])
            ELSE FALSE
        metadata_matches == CompareMetadata(package, sop_data).match
        is_valid == IsValid(sop_data, entry_exists, metadata_matches)
        changed  == MarksChanged(package, is_valid)
    IN  [package |-> package, fetched |-> sop_data # EmptyDict,
         entry_exists |-> entry_exists, metadata_matches |-> metadata_matches,
         is_valid |-> is_valid, changed |-> changed]

\* What a git command did: whether it exited zero, and its standard output
GitFailed  == [ok |-> FALSE, stdout |-> <<>>]
GitSilent  == [ok |-> TRUE,  stdout |-> <<>>]
GitChatty  == [ok |-> TRUE,  stdout |-> << "t" >>]
GitResults == { GitFailed, GitSilent, GitChatty }

\* run_git_command(command): result.stdout.strip(), or None on a non-zero
\* exit; only its truth value is used
RunGitCommand(result) == result.ok /\ Strip(result.stdout) # <<>>

\* Lines 166-207, once the document is written: the exit code and how often
\* the document was staged, committed and pushed
CommitChanges(pat, add, commit, push) ==
    IF ~pat
    THEN [exit |-> 1, staged |-> 0, commits |-> 0, pushes |-> 0]
    ELSE IF ~RunGitCommand(add)
    THEN [exit |-> 1, staged |-> IF add.ok THEN 1 ELSE 0, commits |-> 0, pushes |-> 0]
    ELSE IF ~RunGitCommand(commit)
    THEN [exit |-> 1, staged |-> 1, commits |-> IF commit.ok THEN 1 ELSE 0,
          pushes |-> 0]
    ELSE IF ~RunGitCommand(push)
    THEN [exit |-> 1, staged |-> 1, commits |-> 1,
          pushes |-> IF push.ok THEN 1 ELSE 0]
    ELSE [exit |-> 0, staged |-> 1, commits |-> 1, pushes |-> 1]

\* Lines 114-158 of main() on the loaded document: the loop over the
\* packages, what it computed for each, and registry_data as it leaves it
ScanPackages(data) ==
    LET packages == Get(data, "packages", <<>>)
        rows     == [ i \in 1..Len(packages) |-> CheckPackage(packages[i]) ]
        changes_made == \E i \in 1..Len(packages) : rows[i].changed
    IN  [rows |-> rows, changes_made |-> changes_made,
         data |-> IF packages = <<>> THEN data
                  ELSE Put(data, "packages",
                           [ i \in 1..Len(packages) |->
                               IF rows[i].changed
                               THEN Put(packages[i], "valid", rows[i].is_valid)
                               ELSE packages[i] ])]

\* Lines 160-209 of main(): registry.json is written and published only if
\* the loop set changes_made
SaveChanges(scan, pat, add, commit, push) ==
    IF ~scan.changes_made
    THEN [exit |-> 0, wrote |-> FALSE, staged |-> 0, commits |-> 0, pushes |-> 0]
    ELSE [wrote |-> TRUE] @@ CommitChanges(pat, add, commit, push)

----------------------------------------------------------------------------
(* Records and descriptors of bounded distance from the canonical ones      *)

\* The field names a descriptor's package section is written with
DescriptorFields ==
    { "name", "version", "status", "description", "license", "author",
      "repository", "homepage", "entry", "keywords", "categories" }

RecordFields == DescriptorFields \cup {"valid"}

RepoU == << "github.com", "/", "u" >>
RepoV == << "github.com", "/", "v" >>

\* Two values per field; repository and entry are strings the code takes apart
Value(f, k) ==
    CASE f = "repository" -> IF k = 1 THEN RepoU ELSE RepoV
      [] f = "entry"      -> IF k = 1 THEN << "m.sop" >> ELSE << "/", "m.sop" >>
      [] f = "valid"      -> (k = 1)
      [] OTHER            -> IF k = 1 THEN "a" ELSE "b"

\* The mapping over `fields` with `dropped` absent and `changed` at their second value
Make(fields, dropped, changed) ==
    [ f \in fields \ dropped |-> Value(f, IF f \in changed THEN 2 ELSE 1) ]

RECURSIVE SubsetsUpTo(_, _)
SubsetsUpTo(S, n) ==
    IF n = 0 THEN { {} }
    ELSE LET smaller == SubsetsUpTo(S, n - 1)
         IN  smaller \cup { T \cup {x} : T \in smaller, x \in S }

\* Every mapping that differs from the canonical one in at most n fields
MappingsUpTo(fields, n) ==
    UNION { { Make(fields, T \ C, C) : C \in SUBSET T } : T \in SubsetsUpTo(fields, n) }

\* In how many fields a mapping differs from the canonical one
Distance(fields, m) ==
    Cardinality({ f \in fields : f \notin DOMAIN m \/ m[f] # Value(f, 1) })

----------------------------------------------------------------------------
(* Specification of the field reconciler on bounded inputs                 *)

MaxDiff == 3

\* A failed fetch, a descriptor without a package section, an empty section
NoSectionDocs ==
    { EmptyDict, [dependencies |-> EmptyDict], [package |-> EmptyDict] }

InitReconcile ==
    /\ \E r \in MappingsUpTo(RecordFields, MaxDiff) :
         \E d \in NoSectionDocs \cup
                  { [package |-> p] :
                      p \in MappingsUpTo(DescriptorFields,
                                         MaxDiff - Distance(RecordFields, r)) } :
            run = [op |-> "input", registry_package |-> r, sop_data |-> d]
    /\ base_data = EmptyDict
    /\ registry_data = EmptyDict
    /\ web = EmptyDict
    /\ pc = "reconcile"
    /\ stable = "none"

RunReconcile ==
    /\ pc = "reconcile"
    /\ run' = [op |-> "compare_metadata",
               registry_package |-> run.registry_package,
               sop_data |-> run.sop_data]
              @@ CompareMetadata(run.registry_package, run.sop_data)
    /\ pc' = "done"
    /\ UNCHANGED <<base_data, registry_data, web, stable>>

NextReconcile == RunReconcile

SpecReconcile == InitReconcile /\ [][NextReconcile]_vars

\* C8 as claimed: the field reconciler reports Mismatch whenever the package
\* section is absent or present but empty, for every record.
C8_AbsentOrEmptySectionMismatches ==
    ( /\ run.op = "compare_metadata"
      /\ \/ "package" \notin DOMAIN run.sop_data
         \/ run.sop_data["package"] = EmptyDict )
    => ~run.match

\* C8 as amended: the field reconciler reports Mismatch whenever the descriptor
\* document is empty or has no package section, for every record; a package
\* section that is present but declares no field gives Match.
C8_AbsentSectionMismatches ==
    run.op = "compare_metadata" =>
        /\ "package" \notin DOMAIN run.sop_data => ~run.match
        /\ ( /\ "package" \in DOMAIN run.sop_data
             /\ DOMAIN run.sop_data["package"] = {} ) => run.match

\* A non-empty descriptor without a package section, reconciled with a full record
C8_Witness ==
    /\ run.op = "compare_metadata"
    /\ run.sop_data # EmptyDict
    /\ "package" \notin DOMAIN run.sop_data
    /\ DOMAIN run.registry_package = RecordFields
    /\ ~run.match

\* The compare list as the claim gives it
ClaimedCompareList ==
    { "name", "version", "status", "license", "author", "repository",
      "homepage", "entry", "keywords", "categories" }

\* C9: for a descriptor with a package section, the field reconciler returns
\* Match if and only if every compare-list field present in both the descriptor
\* and the record has equal values; a field absent from the descriptor never
\* causes a mismatch, and description and valid are never compared.
C9_MatchIffSharedFieldsEqual ==
    ( run.op = "compare_metadata" /\ "package" \in DOMAIN run.sop_data ) =>
        LET package_info == run.sop_data["package"]
            record       == run.registry_package
        IN
        /\ run.match <=>
             \A f \in ClaimedCompareList :
                (f \in DOMAIN package_info /\ f \in DOMAIN record)
                    => record[f] = package_info[f]
        /\ ~run.match =>
             /\ run.field \in ClaimedCompareList \cap DOMAIN package_info
             /\ run.field \notin {"description", "valid"}

\* A Match although the record's description differs from the descriptor's and
\* the record holds a changed value for a field the descriptor omits
C9_Witness ==
    /\ run.op = "compare_metadata"
    /\ "package" \in DOMAIN run.sop_data
    /\ run.match
    /\ "description" \in DOMAIN run.sop_data["package"]
    /\ "description" \in DOMAIN run.registry_package
    /\ run.registry_package["description"] # run.sop_data["package"]["description"]
    /\ "homepage" \notin DOMAIN run.sop_data["package"]
    /\ "homepage" \in DOMAIN run.registry_package
    /\ run.registry_package["homepage"] = "b"

----------------------------------------------------------------------------
(* Specification of the admission validator on bounded descriptors         *)

\* The entry file the canonical descriptor of RepoU declares
EntryUrlU == SweepEntryUrl(RepoU, Value("entry", 1))

InitAdmit ==
    /\ \E repo \in { RepoU, RepoU \o << "/" >> } :
         registry_data = [packages |-> << [repository |-> repo] >>]
    /\ \E descriptor \in
            { NotFound, PlainFile } \cup
            { TomlFile(d) : d \in NoSectionDocs } \cup
            { TomlFile([package |-> p]) : p \in MappingsUpTo(DescriptorFields, MaxDiff) },
          entry \in { NotFound, PlainFile } :
         web = (SopTomlUrl(RepoU) :> descriptor) @@ (EntryUrlU :> entry)
    /\ base_data = [packages |-> <<>>]
    /\ pc = "admit"
    /\ run = Idle
    /\ stable = "none"

RunAdmit ==
    /\ pc = "admit"
    /\ run' = [op |-> "validate_sop_toml"] @@ ValidateSopToml(registry_data)
    /\ pc' = "done"
    /\ UNCHANGED <<base_data, registry_data, web, stable>>

NextAdmit == RunAdmit

SpecAdmit == InitAdmit /\ [][NextAdmit]_vars

\* The order of the required fields as the claim gives it
ClaimedRequiredOrder ==
    << "name", "version", "status", "license", "author", "repository", "entry" >>

\* C7: admission is fail-fast in a fixed order: a fetch or parse failure
\* rejects before any field is checked; otherwise the required fields are
\* checked in the order name, version, status, license, author, repository,
\* entry and the rejection names the first absent one only; the entry path is
\* probed only when all seven are present, and admission accepts exactly when
\* that probe succeeds.
C7_AdmissionFailFastInOrder ==
    run.op = "validate_sop_toml" =>
        LET repo     == registry_data.packages[Len(registry_data.packages)].repository
            response == HttpGet(SopTomlUrl(repo))
            fetched  == response.status = 200 /\ response.parses
            info     == IF "package" \in DOMAIN response.doc
                        THEN response.doc["package"] ELSE EmptyDict
            absent   == { i \in 1..7 : ClaimedRequiredOrder[i] \notin DOMAIN info }
            first    == CHOOSE i \in absent : \A j \in absent : i <= j
        IN
        /\ ~fetched =>
             run.exit = 1 /\ run.checked = <<>> /\ run.probed = <<>>
        /\ (fetched /\ absent # {}) =>
             /\ run.exit = 1
             /\ run.err = ClaimedRequiredOrder[first]
             /\ run.checked = SubSeq(ClaimedRequiredOrder, 1, first)
             /\ run.probed = <<>>
        /\ (fetched /\ absent = {}) =>
             /\ run.checked = ClaimedRequiredOrder
             /\ Len(run.probed) = 1
             /\ (run.exit = 0) <=> (HttpGet(run.probed[1]).status = 200)
        /\ run.exit \in {0, 1}

\* A descriptor missing license and author, rejected for license
C7_Witness ==
    /\ run.op = "validate_sop_toml"
    /\ run.err = "license"
    /\ LET info == web[SopTomlUrl(RepoU)].doc["package"] IN
       /\ "author" \notin DOMAIN info
       /\ "entry" \in DOMAIN info
    /\ run.checked = << "name", "version", "status", "license" >>

----------------------------------------------------------------------------
(* Specification of the contribution pipeline and the sweep                *)

MaxPackages == 2

Canonical == Make(DescriptorFields, {}, {})

\* The package sections the descriptor of RepoU is published with
PipelineSections ==
    { Canonical,
      Make(DescriptorFields, {}, {"repository"}),
      Make(DescriptorFields, {"license", "author"}, {}),
      Make(DescriptorFields, {}, {"version"}),
      Put(Canonical, "repository", <<>>),
      Put(Canonical, "valid", FALSE) }

\* What each URL of the remote may answer
Responses(url) ==
    IF url = EntryUrlU THEN { NotFound, PlainFile }
    ELSE { NotFound } \cup { TomlFile([package |-> p]) : p \in PipelineSections }

\* The last records contributors submit
Submissions ==
    { [repository |-> RepoU],
      [repository |-> << " " >>],
      [repository |-> RepoU, version |-> "b"] }

Init ==
    /\ base_data = [packages |-> <<>>]
    /\ registry_data = [packages |-> <<>>]
    /\ web \in { (SopTomlUrl(RepoU) :> d) @@ (EntryUrlU :> e) :
                   d \in Responses(SopTomlUrl(RepoU)), e \in Responses(EntryUrlU) }
    /\ pc = "idle"
    /\ run = Idle
    /\ stable = "none"

\* The owner of a package repository changes what it publishes
RemoteChange ==
    /\ \E url \in DOMAIN web : \E response \in Responses(url) \ { web[url] } :
         web' = [web EXCEPT ![url] = response]
    /\ run' = [op |-> "remote change"]
    /\ stable' = "none"
    /\ UNCHANGED <<base_data, registry_data, pc>>

\* A contributor proposes registry.json with one record appended to main's
Submit ==
    /\ pc = "idle"
    /\ Len(registry_data.packages) < MaxPackages
    /\ \E new_package \in Submissions :
         registry_data' = [packages |-> Append(registry_data.packages, new_package)]
    /\ base_data' = registry_data
    /\ pc' = "submitted"
    /\ run' = [op |-> "submit"]
    /\ stable' = "none"
    /\ UNCHANGED web

\* verify_append.py on main's and the proposed document; a rejected proposal
\* is dropped
Verify ==
    /\ pc = "submitted"
    /\ LET result == VerifyAppend(base_data, registry_data) IN
       /\ run' = [op |-> "verify"] @@ result
       /\ pc' = IF result.exit = 0 THEN "verified" ELSE "idle"
       /\ registry_data' = IF result.exit = 0 THEN registry_data ELSE base_data
    /\ UNCHANGED <<base_data, web, stable>>

\* validate_sop_toml.py on the proposed document
Admit ==
    /\ pc = "verified"
    /\ LET result == ValidateSopToml(registry_data) IN
       /\ run' = [op |-> "validate_sop_toml"] @@ result
       /\ pc' = IF result.exit = 0 THEN "admitted" ELSE "idle"
       /\ registry_data' = IF result.exit = 0 THEN registry_data ELSE base_data
       /\ stable' = IF result.exit = 0 THEN "admitted" ELSE "none"
    /\ UNCHANGED <<base_data, web>>

\* update_registry.py on the admitted document; the proposal is merged when
\* it exits zero and dropped otherwise. run.admissible notes whether the
\* remote, as this run fetched it, would have passed validate_sop_toml.py
Enrich ==
    /\ pc = "admitted"
    /\ \E pat \in BOOLEAN, git_ok \in BOOLEAN :
         LET result == UpdateRegistry(registry_data, pat, git_ok) IN
         /\ run' = [op |-> "update_registry",
                    admissible |-> ValidateSopToml(registry_data).exit = 0]
                   @@ result
         /\ registry_data' = IF result.exit = 0 THEN result.written ELSE base_data
         /\ stable' = IF result.exit = 0 /\ stable = "admitted"
                      THEN "enriched" ELSE "none"
    /\ pc' = "idle"
    /\ UNCHANGED <<base_data, web>>

\* The environments of one sweep, as far as the sweep reads them: whether
\* GH_PAT is set and what git add, commit and push do. GH_PAT is not read
\* unless the loop set changes_made, and a git command that is never run has
\* no result (it stands as GitChatty)
Environments(changes_made) ==
    { env \in BOOLEAN \X GitResults \X GitResults \X GitResults :
        LET add_runs    == changes_made /\ env[1]
            commit_runs == add_runs /\ RunGitCommand(env[2])
            push_runs   == commit_runs /\ RunGitCommand(env[3])
        IN  /\ ~changes_made => env[1]
            /\ ~add_runs => env[2] = GitChatty
            /\ ~commit_runs => env[3] = GitChatty
            /\ ~push_runs => env[4] = GitChatty }

\* The rest of main() once the loop has run, in one of its environments
SweepAfter(scan) ==
    /\ \E env \in Environments(scan.changes_made) :
         run' = [op |-> "daily_check", rows |-> scan.rows,
                 changes_made |-> scan.changes_made, pat |-> env[1],
                 git_ok |-> env[2].ok /\ env[3].ok /\ env[4].ok,
                 again |-> run.op = "daily_check"]
                @@ SaveChanges(scan, env[1], env[2], env[3], env[4])
    /\ registry_data' = IF scan.changes_made THEN scan.data ELSE registry_data

\* daily_check.py on main's document; what it wrote stays in the working tree
Sweep ==
    /\ pc = "idle"
    /\ SweepAfter(ScanPackages(registry_data))
    /\ UNCHANGED <<base_data, web, pc, stable>>

Next ==
    \/ RemoteChange
    \/ Submit
    \/ Verify
    \/ Admit
    \/ Enrich
    \/ Sweep

Spec == Init /\ [][Next]_vars

----------------------------------------------------------------------------
(* Claims about the pipeline and the sweep                                 *)

\* C2: in the sweep, for every record with a non-empty repository the verdict
\* is true if and only if the descriptor fetch returned a non-empty
\* descriptor, the descriptor's declared entry path was probed as reachable,
\* and reconciliation returned Match.
C2_VerdictIsConjunction ==
    run.op = "daily_check" =>
        \A i \in DOMAIN run.rows :
            LET record   == run.rows[i].package
                repo     == Get(record, "repository", <<>>)
                response == HttpGet(SopTomlUrl(repo))
                fetched  == /\ response.status = 200
                            /\ response.parses
                            /\ response.doc # EmptyDict
                declared == /\ fetched
                            /\ "package" \in DOMAIN response.doc
                            /\ "entry" \in DOMAIN response.doc["package"]
                entry    == response.doc["package"]["entry"]
                reachable == /\ declared
                             /\ entry # <<>>
                             /\ HttpGet(SweepEntryUrl(repo, entry)).status = 200
                matches  == fetched /\ CompareMetadata(record, response.doc).match
            IN  repo # <<>> =>
                    /\ run.rows[i].is_valid <=> (fetched /\ reachable /\ matches)
                    /\ run.rows[i].fetched = fetched
                    /\ run.rows[i].entry_exists = reachable
                    /\ run.rows[i].metadata_matches = matches

\* One sweep finding a record valid and another, with the descriptor fetched
\* and the entry reachable, invalid for a mismatch alone
C2_Witness ==
    /\ run.op = "daily_check"
    /\ \E i, j \in DOMAIN run.rows :
         /\ run.rows[i].is_valid
         /\ run.rows[j].fetched
         /\ run.rows[j].entry_exists
         /\ ~run.rows[j].metadata_matches
         /\ ~run.rows[j].is_valid

\* C3 as claimed: no enriched record is ever written from a descriptor that
\* is missing a required field or whose entry path is unreachable: whenever
\* update_registry.py writes and commits, the descriptor it copied from
\* passes the admission checks.
C3_EnrichedOnlyFromAdmissibleDescriptor ==
    ( run.op = "update_registry" /\ run.exit = 0 ) =>
        /\ \A f \in { "name", "version", "status", "license", "author",
                      "repository", "entry" } : f \in DOMAIN run.package_info
        /\ run.admissible

\* C4 as claimed: a record is marked changed if and only if it had no valid
\* field or its stored valid differs from the fresh verdict (records with an
\* empty or absent repository included, their verdict being false); the
\* document is written and a commit attempted only when some record is marked
\* changed; a sweep right after a sweep marks nothing and writes nothing.
C4_ChangedIffVerdictDiffers ==
    run.op = "daily_check" =>
        /\ \A i \in DOMAIN run.rows :
             LET record == run.rows[i].package IN
             run.rows[i].changed <=>
                 \/ "valid" \notin DOMAIN record
                 \/ record["valid"] # run.rows[i].is_valid
        /\ run.wrote => \E i \in DOMAIN run.rows : run.rows[i].changed
        /\ run.again => ( ~run.changes_made /\ ~run.wrote /\ run.commits = 0 )

\* C5 as claimed: when a sweep marks a record changed, GH_PAT is set and every
\* git command succeeds, whatever it prints, the sweep stages, commits and
\* pushes exactly once and exits zero; it exits non-zero only when a git
\* command fails or GH_PAT is missing.
C5_SucceedingGitCommitsOnce ==
    run.op = "daily_check" =>
        /\ ( run.changes_made /\ run.pat /\ run.git_ok ) =>
             /\ run.exit = 0
             /\ run.staged = 1 /\ run.commits = 1 /\ run.pushes = 1
        /\ run.exit # 0 => ( ~run.pat \/ ~run.git_ok )

\* The copy list as the claim's specification gives it: the canonical fields
\* except valid
ClaimedCopyList ==
    { "name", "version", "status", "description", "license", "author",
      "repository", "homepage", "entry", "keywords", "categories" }

Without(record, field) == [ f \in DOMAIN record \ {field} |-> record[f] ]

\* The fields on which two records differ
Differing(old, new) ==
    { f \in DOMAIN old \cup DOMAIN new :
        f \notin DOMAIN old \/ f \notin DOMAIN new \/ old[f] # new[f] }

\* C6: a sweep leaves the record sequence with the same length and, at each
\* index, the same record but for its valid field; an enrichment leaves the
\* same length, every record but the last as it was, and changes on the last
\* only fields of the copy list that the descriptor declares, never valid.
C6_OnlyValidOrLastRecordChanges ==
    [][ /\ run'.op = "daily_check" =>
             /\ Len(registry_data'.packages) = Len(registry_data.packages)
             /\ \A i \in DOMAIN registry_data.packages :
                  Without(registry_data'.packages[i], "valid")
                      = Without(registry_data.packages[i], "valid")
        /\ run'.op = "update_registry" =>
             LET old == registry_data.packages
                 new == run'.written.packages
             IN
             /\ Len(new) = Len(old)
             /\ \A i \in 1..(Len(old) - 1) : new[i] = old[i]
             /\ Differing(old[Len(old)], new[Len(old)])
                    \subseteq (ClaimedCopyList \cap DOMAIN run'.package_info)
             /\ run'.exit = 0 => registry_data' = run'.written
      ]_vars

\* An enrichment that wrote the second record of a registry whose first
\* record a sweep had stamped
C6_Witness ==
    /\ run.op = "update_registry"
    /\ run.wrote
    /\ run.exit = 0
    /\ Len(registry_data.packages) = 2
    /\ "valid" \in DOMAIN registry_data.packages[1]
    /\ "name" \in DOMAIN registry_data.packages[2]

\* C10 as claimed: a record that passed append-diff verification and
\* admission and was enriched, the remote unchanged since, gets verdict true
\* from the next sweep, also when the descriptor's repository differs from
\* the one submitted.
C10_AdmittedRecordSweepsValid ==
    ( run.op = "daily_check" /\ stable = "enriched" ) =>
        run.rows[Len(run.rows)].is_valid

----------------------------------------------------------------------------
(* Specification of the append-diff verifier on bounded documents          *)

MaxBaseLen == 2

\* Records a base or proposed document may hold
VerifyRecords ==
    { EmptyDict,
      [repository |-> <<>>],
      [repository |-> <<" ">>],
      [repository |-> <<" ", "u", " ">>],
      [repository |-> <<"v">>],
      [repository |-> <<"v">>, version |-> "1.0"] }

SeqsUpTo(S, n) == UNION { [1..k -> S] : k \in 0..n }

DocsUpTo(n) == { EmptyDict } \cup { [packages |-> p] : p \in SeqsUpTo(VerifyRecords, n) }

InitVerify ==
    /\ base_data \in DocsUpTo(MaxBaseLen)
    /\ registry_data \in DocsUpTo(MaxBaseLen + 1)
    /\ web = EmptyDict
    /\ pc = "verify"
    /\ run = Idle
    /\ stable = "none"

RunVerify ==
    /\ pc = "verify"
    /\ run' = [op |-> "verify"] @@ VerifyAppend(base_data, registry_data)
    /\ pc' = "done"
    /\ UNCHANGED <<base_data, registry_data, web, stable>>

NextVerify == RunVerify

SpecVerify == InitVerify /\ [][NextVerify]_vars

\* The claim's side of C1, stated without the code's control flow
HasNonSpace(s) == \E i \in 1..Len(s) : s[i] \notin Whitespace

IsSingleAppend(base, pr) ==
    /\ "packages" \in DOMAIN base
    /\ "packages" \in DOMAIN pr
    /\ Len(pr.packages) = Len(base.packages) + 1
    /\ SubSeq(pr.packages, 1, Len(base.packages)) = base.packages
    /\ LET last == pr.packages[Len(pr.packages)] IN
       /\ DOMAIN last \subseteq {"repository"}
       /\ "repository" \in DOMAIN last
       /\ HasNonSpace(last.repository)

\* C1: the append-diff verifier accepts (exit 0) if and only if both documents
\* have a packages sequence, proposed has exactly one more record than base,
\* every base record equals the proposed record at its index, the last proposed
\* record has no field but repository, and that repository is non-empty after
\* trimming; otherwise it exits non-zero.
C1_VerifyAcceptsIffSingleAppend ==
    run.op = "verify" =>
        /\ run.exit \in {0, 1}
        /\ (run.exit = 0) <=> IsSingleAppend(base_data, registry_data)

\* An accepted append of a whitespace-padded repository onto a non-empty base
C1_Witness ==
    /\ run.op = "verify"
    /\ run.exit = 0
    /\ Len(base_data.packages) = 2
    /\ registry_data.packages[3].repository = <<" ", "u", " ">>

=============================================================================
